---- MODULE Spec2Model ----
(***************************************************************************)
(* Model of the MoQ consumer source (src/src/hang-source.c) and its video  *)
(* decoder (src/src/nvdec-decoder.c).                                      *)
(*                                                                         *)
(* Threads: the host's control thread ("ctl": create/update/activate/     *)
(* deactivate/destroy), one transport thread delivering session-status    *)
(* and catalog callbacks ("ev"), the transport threads delivering video   *)
(* frames (VThreads) and audio frames (AThreads).  Every action is one    *)
(* step of one thread between two synchronisation points of the code.     *)
(***************************************************************************)
EXTENDS Integers, Sequences, FiniteSets, TLC

(* ------------------------------ bounds -------------------------------- *)
\* handles the transport keeps live at one time
MaxId == 6
\* calls the host makes after it created the source
MaxOps == 2
\* frames one packet may yield in the drain loop
MaxDrain == 2
\* frames that enter the emission path in one activation
MaxEmit == 2

(* ------------------------------ uint64_t ------------------------------ *)
\* a uint64_t is kept as four 16-bit limbs, the least significant first
Limb == 65536
U64Zero == <<0, 0, 0, 0>>
\* the uint64_t of a natural below 2^31
U64(n) == <<n % Limb, (n \div Limb) % Limb, 0, 0>>
\* x * k in uint64_t arithmetic (k below 2^15): the carry out of the top limb is lost
U64Mul(x, k) ==
    LET p1 == x[1] * k
        p2 == x[2] * k + (p1 \div Limb)
        p3 == x[3] * k + (p2 \div Limb)
        p4 == x[4] * k + (p3 \div Limb)
    IN <<p1 % Limb, p2 % Limb, p3 % Limb, p4 % Limb>>
\* x + 1 in uint64_t arithmetic: UINT64_MAX + 1 is 0
U64Inc(x) ==
    IF x[1] < Limb - 1 THEN <<x[1] + 1, x[2], x[3], x[4]>>
    ELSE IF x[2] < Limb - 1 THEN <<0, x[2] + 1, x[3], x[4]>>
    ELSE IF x[3] < Limb - 1 THEN <<0, 0, x[3] + 1, x[4]>>
    ELSE IF x[4] < Limb - 1 THEN <<0, 0, 0, x[4] + 1>>
    ELSE U64Zero
\* x < y on uint64_t
U64Less(x, y) ==
    \/ x[4] < y[4]
    \/ x[4] = y[4] /\ x[3] < y[3]
    \/ x[4] = y[4] /\ x[3] = y[3] /\ x[2] < y[2]
    \/ x[4] = y[4] /\ x[3] = y[3] /\ x[2] = y[2] /\ x[1] < y[1]
\* x <= y on uint64_t
U64Leq(x, y) == x = y \/ U64Less(x, y)

(* ------------------------- inputs of the model ------------------------ *)
\* a NULL char* (bzalloc'ed context): no string of the model equals it
Null == <<"NULL">>
Urls == { <<>>, <<"e">>, <<"s", ":", "/", "/">>, <<"s", ":", "/", "/", "h">> }
Paths == { <<>>, <<"p">> }
Settings ==
    { [url |-> u, broadcast |-> <<"p">>] : u \in Urls }
    \cup { [url |-> <<"s", ":", "/", "/", "h">>, broadcast |-> <<>>] }
NoArg == [url |-> Null, broadcast |-> Null]
\* what a failed create returns (id <= 0)
FailIds == {-1}
\* session status codes: connected, fatal, undefined positive
StatusCodes == {0, -1, 1}
\* frame_id / catalog_id handed to a callback: valid or error
CallbackIds == {1, 0}
\* source presentation timestamps, in microseconds
Pts == {U64(1), U64(2)}
\* frame payloads: one well-formed NAL, one whose length overruns the input
Payloads == { <<0, 0, 0, 1, 7>>, <<0, 0, 0, 2, 7>> }

VThreads == {"v1", "v2"}
AThreads == {"a1"}
FrameThreads == VThreads \cup AThreads

VARIABLES
    context,      \* struct hang_source: settings, active, handles, decoders, timestamps
    decoder_mutex, frame_mutex, audio_mutex,   \* owner of each mutex, or "free"
    cpc, cret, dstep, arg,  \* control thread: position, caller of deactivate, close index, update's settings
    ops,          \* calls the host made since it created the source
    epc,          \* session/catalog callback thread: position
    th,           \* frame callback threads: position and locals
    hkind,        \* transport: the kind of every live id, "none" for an id not live
    hbad,         \* transport: a close call named an id that was not live
    lastClosed,   \* kind of the last handle closed since the last create
    closeOrderBroken,  \* the last step that called the transport closed a handle
                       \* after one of the same or a later kind, no create between
    sinkLog,      \* timestamps handed to the host video sink since activate or
                  \* deactivate last changed the active flag, in call order
    input,        \* the values a function of the decoder is applied to in isolation
    output        \* what the function has returned for them so far

vars == <<context, decoder_mutex, frame_mutex, audio_mutex, cpc, cret, dstep, arg, ops,
          epc, th, hkind, hbad, lastClosed, closeOrderBroken, sinkLog,
          input, output>>

mutexes == <<decoder_mutex, frame_mutex, audio_mutex>>
ctl == <<cpc, cret, dstep, arg, ops>>
ev == <<epc>>
transport == <<hkind, hbad, lastClosed, closeOrderBroken>>
unit == <<input, output>>

(* ----------------------------- decoders ------------------------------- *)
\* struct nvdec_decoder behind context->nvdec_context (alloc = pointer non-NULL)
NoDecoder == [alloc |-> FALSE, codec_ctx |-> FALSE, sws_ctx |-> FALSE]
PartialDecoder == [alloc |-> TRUE, codec_ctx |-> FALSE, sws_ctx |-> FALSE]
OpenDecoder == [alloc |-> TRUE, codec_ctx |-> TRUE, sws_ctx |-> FALSE]

HandleFields == <<"audio_track_id", "video_track_id", "catalog_consumer_id",
                  "broadcast_id", "session_id", "origin_id">>

\* the context as hang_source_create leaves it before it calls update
NewContext ==
    [url |-> Null, broadcast_path |-> Null, active |-> FALSE,
     origin_id |-> 0, session_id |-> 0, broadcast_id |-> 0,
     catalog_consumer_id |-> 0, video_track_id |-> 0, audio_track_id |-> 0,
     nvdec_context |-> NoDecoder, audio_decoder_context |-> FALSE,
     has_first_frame |-> FALSE, last_output_timestamp_ns |-> U64Zero]

\* locals of a frame callback thread
IdleThread ==
    [pc |-> "idle", owed |-> 0, success |-> FALSE, drained |-> 0,
     is_active |-> FALSE, ts |-> U64Zero, dec |-> "ok"]

\* hang_source_create: the context and the locks it initialises
Constructed ==
    /\ context = NewContext
    /\ decoder_mutex = "free" /\ frame_mutex = "free" /\ audio_mutex = "free"
    /\ cpc = "upd_check" /\ cret = "host" /\ dstep = 1
    /\ arg \in Settings /\ ops = 0
    /\ epc = "idle"
    /\ th = [t \in FrameThreads |-> IdleThread]
    /\ hkind = [id \in 1..MaxId |-> "none"] /\ hbad = FALSE
    /\ lastClosed = "none" /\ closeOrderBroken = FALSE
    /\ sinkLog = <<>>

Init == Constructed /\ input = <<>> /\ output = <<>>

(* ------------------------- transport handles -------------------------- *)
\* the kind of handle behind a slot's entry (a session's entry also tells
\* which status the transport still has to report)
KindOf(entry) ==
    IF entry \in {"session_connected", "session_failed"} THEN "session" ELSE entry

\* position of a kind in the teardown order of hang_source_deactivate
Rank(kind) ==
    CASE kind = "audio" -> 1
      [] kind = "video" -> 2
      [] kind = "catalog" -> 3
      [] kind = "broadcast" -> 4
      [] kind = "session" -> 5
      [] kind = "origin" -> 6
      [] OTHER -> 0

\* the context and the transport's books at the start of a handler's step,
\* threaded through the calls of the step
Cur == [c |-> context, hk |-> hkind, bad |-> hbad, last |-> lastClosed,
        broken |-> FALSE]

Commit(T) ==
    /\ context' = T.c
    /\ hkind' = T.hk
    /\ hbad' = T.bad
    /\ lastClosed' = T.last
    /\ closeOrderBroken' = T.broken

\* an id the transport issued and nobody closed yet
Live(T, id) == id \in 1..MaxId /\ T.hk[id] # "none"

LiveKind(kind) == \E id \in 1..MaxId : hkind[id] = kind

FreeIds(T) == {id \in 1..MaxId : T.hk[id] = "none"}

\* moq_*_create / connect / consume: an id (the lowest not in use) on success,
\* id <= 0 on failure; a child of a handle that is not live cannot be created
CreateResults(T, parentLive) ==
    FailIds \cup (IF parentLive /\ FreeIds(T) # {}
                  THEN {CHOOSE id \in FreeIds(T) : \A j \in FreeIds(T) : id <= j}
                  ELSE {})

\* field := create(...)
Assign(T, f, kind, r) ==
    IF r > 0
    THEN [T EXCEPT !.c[f] = r, !.hk[r] = kind, !.last = "none"]
    ELSE [T EXCEPT !.c[f] = r]

\* moq_*_close(id)
CloseId(T, id) ==
    IF Live(T, id)
    THEN [T EXCEPT !.hk[id] = "none",
                   !.last = KindOf(T.hk[id]),
                   !.broken = @ \/ Rank(KindOf(T.hk[id])) <= Rank(T.last)]
    ELSE [T EXCEPT !.bad = TRUE]

\* if (context->f > 0) { close(context->f); context->f = 0; }
CloseField(T, f) ==
    IF T.c[f] > 0 THEN [CloseId(T, T.c[f]) EXCEPT !.c[f] = 0] ELSE T

RECURSIVE CloseFields(_, _)
CloseFields(T, fs) ==
    IF fs = <<>> THEN T ELSE CloseFields(CloseField(T, Head(fs)), Tail(fs))

(* ------------------------------ mutexes ------------------------------- *)
\* a return path that leaves the gate as it is
GateKept(t) == {decoder_mutex}

\* pthread_mutex_unlock by thread t.  Unlocking a mutex the caller does not
\* hold is undefined: the build may leave the mutex alone or release it
\* under its owner.
GateAfterUnlock(t) ==
    IF decoder_mutex = t THEN {"free"} ELSE {decoder_mutex, "free"}

(* ------------------------- decoder lifetime --------------------------- *)
DecodePcs == {"v_decode", "v_drain", "v_out", "v_ts", "v_sink"}

\* nvdec_decoder_destroy frees the decoder: a thread inside decode_frame on it
\* is left with a dangling pointer
MarkFreed(c, thr) ==
    IF c.nvdec_context.alloc
    THEN [t \in DOMAIN thr |->
            IF thr[t].pc \in DecodePcs THEN [thr[t] EXCEPT !.dec = "freed"] ELSE thr[t]]
    ELSE thr

nvdec_decoder_destroy(c) == [c EXCEPT !.nvdec_context = NoDecoder]

\* audio_decoder_destroy (audio-decoder.c): frees the audio decoder if any
audio_decoder_destroy(c) == [c EXCEPT !.audio_decoder_context = FALSE]

(* --------------------------- configuration ---------------------------- *)
\* strstr(s, pat): index of the first occurrence, 0 if none
StrStr(s, pat) ==
    LET hits == {i \in 1..(Len(s) - Len(pat) + 1) : SubSeq(s, i, i + Len(pat) - 1) = pat}
    IN IF hits = {} THEN 0
       ELSE CHOOSE i \in hits : \A j \in hits : i <= j

SchemeSep == <<":", "/", "/">>

\* hang_source_activate's first guard: already active, or a missing or empty setting
ActivatePrecluded(c) ==
    \/ c.active
    \/ c.url = Null
    \/ c.broadcast_path = Null
    \/ Len(c.url) = 0
    \/ Len(c.broadcast_path) = 0

\* a validation that only looks for "://"
UrlInvalidSchemeOnly(url) == StrStr(url, SchemeSep) = 0

\* the URL validation of hang_source_activate: no "://", or nothing after it
UrlInvalid(url) ==
    \/ StrStr(url, SchemeSep) = 0
    \/ Len(url) - (StrStr(url, SchemeSep) + 2) = 0

\* a comparison that wants both settings to differ
SettingsChangedBoth(c, s) ==
    /\ c.url = Null \/ c.url # s.url
    /\ c.broadcast_path = Null \/ c.broadcast_path # s.broadcast

\* hang_source_update's comparison of the new settings with the stored ones
SettingsChanged(c, s) ==
    LET url_changed == c.url = Null \/ c.url # s.url
        broadcast_changed == c.broadcast_path = Null \/ c.broadcast_path # s.broadcast
    IN url_changed \/ broadcast_changed

\* update's test before it reconnects
ReconnectWanted(c) ==
    /\ c.url # Null /\ c.broadcast_path # Null
    /\ Len(c.url) > 0 /\ Len(c.broadcast_path) > 0

(* --------------------------- control thread --------------------------- *)
\* where hang_source_deactivate returns to
AfterDeactivate ==
    CASE cret = "update" -> "upd_replace"
      [] cret = "destroy" -> "destroy_close"
      [] OTHER -> "idle"

\* the host calls update(settings)
HostUpdate ==
    /\ cpc = "idle" /\ ops < MaxOps
    /\ \E s \in Settings : arg' = s
    /\ cpc' = "upd_check"
    /\ ops' = ops + 1
    /\ UNCHANGED <<context, mutexes, cret, dstep, ev, th, transport, sinkLog, unit>>

\* hang_source_update up to its call of deactivate: unchanged settings return at once
UpdateCheck ==
    /\ cpc = "upd_check"
    /\ IF SettingsChanged(context, arg)
       THEN cpc' = "deact_entry" /\ cret' = "update" /\ arg' = arg
       ELSE cpc' = "idle" /\ cret' = cret /\ arg' = NoArg
    /\ UNCHANGED <<context, mutexes, dstep, ops, ev, th, transport, sinkLog, unit>>

\* hang_source_update after deactivate: store the settings, reconnect if both are set
UpdateReplace ==
    /\ cpc = "upd_replace"
    /\ context' = [context EXCEPT !.url = arg.url, !.broadcast_path = arg.broadcast]
    /\ cpc' = IF ReconnectWanted(context') THEN "act_entry" ELSE "idle"
    /\ arg' = NoArg
    /\ UNCHANGED <<mutexes, cret, dstep, ops, ev, th, transport, sinkLog, unit>>

\* the host calls activate
HostActivate ==
    /\ cpc = "idle" /\ ops < MaxOps
    /\ cpc' = "act_entry"
    /\ ops' = ops + 1
    /\ UNCHANGED <<context, mutexes, cret, dstep, arg, ev, th, transport, sinkLog, unit>>

\* hang_source_activate refuses: nothing is called, nothing changes
ActivateRefuse ==
    /\ cpc = "act_entry"
    /\ ActivatePrecluded(context) \/ UrlInvalid(context.url)
    /\ cpc' = "idle"
    /\ UNCHANGED <<context, mutexes, cret, dstep, arg, ops, ev, th, transport, sinkLog, unit>>

\* the cleanup label of hang_source_activate
ActivateCleanup(T) == CloseFields(T, <<"session_id", "origin_id">>)

\* hang_source_activate: create the origin, connect the session; cleanup on failure
ActivateConnect ==
    /\ cpc = "act_entry"
    /\ ~ActivatePrecluded(context) /\ ~UrlInvalid(context.url)
    /\ \E o \in CreateResults(Cur, TRUE) :
            LET T1 == Assign(Cur, "origin_id", "origin", o)
            IN IF o <= 0
               THEN Commit(ActivateCleanup(T1)) /\ cpc' = "idle"
               ELSE \E n \in CreateResults(T1, TRUE) :
                      LET T2 == Assign(T1, "session_id", "session", n)
                      IN IF n <= 0
                         THEN Commit(ActivateCleanup(T2)) /\ cpc' = "idle"
                         ELSE Commit(T2) /\ cpc' = "act_mark"
    /\ sinkLog' = <<>>
    /\ UNCHANGED <<mutexes, cret, dstep, arg, ops, ev, th, unit>>

\* hang_source_activate: context->active = true
ActivateMark ==
    /\ cpc = "act_mark"
    /\ context' = [context EXCEPT !.active = TRUE]
    /\ cpc' = "idle"
    /\ UNCHANGED <<mutexes, cret, dstep, arg, ops, ev, th, transport, sinkLog, unit>>

\* the host calls deactivate
HostDeactivate ==
    /\ cpc = "idle" /\ ops < MaxOps
    /\ cpc' = "deact_entry" /\ cret' = "host"
    /\ ops' = ops + 1
    /\ UNCHANGED <<context, mutexes, dstep, arg, ev, th, transport, sinkLog, unit>>

\* hang_source_deactivate: return if inactive, else clear active first
DeactivateEntry ==
    /\ cpc = "deact_entry"
    /\ IF ~context.active
       THEN /\ cpc' = AfterDeactivate /\ cret' = "host"
            /\ UNCHANGED context
            /\ sinkLog' = sinkLog
       ELSE /\ context' = [context EXCEPT !.active = FALSE]
            /\ cpc' = "deact_close" /\ cret' = cret
            /\ sinkLog' = <<>>
    /\ dstep' = 1
    /\ UNCHANGED <<mutexes, arg, ops, ev, th, transport, unit>>

\* hang_source_deactivate: the dstep-th of the six guarded closes
DeactivateClose ==
    /\ cpc = "deact_close"
    /\ Commit(CloseField(Cur, HandleFields[dstep]))
    /\ IF dstep = Len(HandleFields)
       THEN cpc' = "deact_queues" /\ dstep' = 1
       ELSE cpc' = cpc /\ dstep' = dstep + 1
    /\ UNCHANGED <<mutexes, cret, arg, ops, ev, th, sinkLog, unit>>

\* the control thread clears the frame queue under frame_mutex, then the audio
\* queue under audio_mutex (nothing in these sources fills either queue):
\* pthread_mutex_lock(&frame_mutex) ...
QueueFrameLock(pc, next) ==
    /\ cpc = pc /\ frame_mutex = "free"
    /\ frame_mutex' = "ctl" /\ cpc' = next
    /\ UNCHANGED <<context, decoder_mutex, audio_mutex, cret, dstep, arg, ops, ev, th,
                   transport, sinkLog, unit>>

\* a control thread that goes on to the audio queue with frame_mutex still locked
QueueFrameKept(pc, next) ==
    /\ cpc = pc
    /\ cpc' = next
    /\ UNCHANGED <<context, mutexes, cret, dstep, arg, ops, ev, th, transport, sinkLog, unit>>

\* ... pthread_mutex_unlock(&frame_mutex) ...
QueueFrameUnlock(pc, next) ==
    /\ cpc = pc
    /\ frame_mutex' = "free" /\ cpc' = next
    /\ UNCHANGED <<context, decoder_mutex, audio_mutex, cret, dstep, arg, ops, ev, th,
                   transport, sinkLog, unit>>

\* ... pthread_mutex_lock(&audio_mutex) ...
QueueAudioLock(pc, next) ==
    /\ cpc = pc /\ audio_mutex = "free"
    /\ audio_mutex' = "ctl" /\ cpc' = next
    /\ UNCHANGED <<context, decoder_mutex, frame_mutex, cret, dstep, arg, ops, ev, th,
                   transport, sinkLog, unit>>

\* ... pthread_mutex_unlock(&audio_mutex)
QueueAudioUnlock(pc, next) ==
    /\ cpc = pc
    /\ audio_mutex' = "free" /\ cpc' = next
    /\ UNCHANGED <<context, decoder_mutex, frame_mutex, cret, dstep, arg, ops, ev, th,
                   transport, sinkLog, unit>>

\* hang_source_deactivate: clear both queues
DeactivateFrameLock == QueueFrameLock("deact_queues", "deact_fq")
DeactivateFrameUnlock == QueueFrameUnlock("deact_fq", "deact_aq_lock")
DeactivateAudioLock == QueueAudioLock("deact_aq_lock", "deact_aq")
DeactivateAudioUnlock == QueueAudioUnlock("deact_aq", "deact_lock")

DeactivateQueues ==
    \/ DeactivateFrameLock \/ DeactivateFrameUnlock
    \/ DeactivateAudioLock \/ DeactivateAudioUnlock

\* hang_source_deactivate: pthread_mutex_lock(&decoder_mutex)
DeactivateLock ==
    /\ cpc = "deact_lock"
    /\ decoder_mutex = "free"
    /\ decoder_mutex' = "ctl"
    /\ cpc' = "deact_destroy"
    /\ UNCHANGED <<context, frame_mutex, audio_mutex, cret, dstep, arg, ops, ev, th,
                   transport, sinkLog, unit>>

\* hang_source_deactivate: destroy both decoders, unlock
DeactivateDestroy ==
    /\ cpc = "deact_destroy"
    /\ context' = audio_decoder_destroy(nvdec_decoder_destroy(context))
    /\ th' = MarkFreed(context, th)
    /\ decoder_mutex' \in GateAfterUnlock("ctl")
    /\ cpc' = "deact_reset"
    /\ UNCHANGED <<frame_mutex, audio_mutex, cret, dstep, arg, ops, ev, transport, sinkLog, unit>>

\* hang_source_deactivate: reset the timestamp tracking, return
DeactivateReset ==
    /\ cpc = "deact_reset"
    /\ context' = [context EXCEPT !.has_first_frame = FALSE,
                                  !.last_output_timestamp_ns = U64Zero]
    /\ cpc' = AfterDeactivate /\ cret' = "host"
    /\ UNCHANGED <<mutexes, dstep, arg, ops, ev, th, transport, sinkLog, unit>>

\* the host destroys the source: hang_source_destroy starts with deactivate
HostDestroy ==
    /\ cpc = "idle" /\ ops < MaxOps
    /\ cpc' = "deact_entry" /\ cret' = "destroy"
    /\ ops' = ops + 1
    /\ UNCHANGED <<context, mutexes, dstep, arg, ev, th, transport, sinkLog, unit>>

\* hang_source_destroy: close whatever handle is still set
DestroyClose ==
    /\ cpc = "destroy_close"
    /\ Commit(CloseFields(Cur, HandleFields))
    /\ cpc' = "destroy_lock"
    /\ UNCHANGED <<mutexes, cret, dstep, arg, ops, ev, th, sinkLog, unit>>

\* hang_source_destroy: pthread_mutex_lock(&decoder_mutex)
DestroyLock ==
    /\ cpc = "destroy_lock"
    /\ decoder_mutex = "free"
    /\ decoder_mutex' = "ctl"
    /\ cpc' = "destroy_decoders"
    /\ UNCHANGED <<context, frame_mutex, audio_mutex, cret, dstep, arg, ops, ev, th,
                   transport, sinkLog, unit>>

\* hang_source_destroy: destroy both decoders, unlock
DestroyDecoders ==
    /\ cpc = "destroy_decoders"
    /\ context' = audio_decoder_destroy(nvdec_decoder_destroy(context))
    /\ th' = MarkFreed(context, th)
    /\ decoder_mutex' \in GateAfterUnlock("ctl")
    /\ cpc' = "destroy_queues"
    /\ UNCHANGED <<frame_mutex, audio_mutex, cret, dstep, arg, ops, ev, transport, sinkLog, unit>>

\* hang_source_destroy: clear both queues under their mutexes, free the context
DestroyFrameLock == QueueFrameLock("destroy_queues", "destroy_fq")
DestroyFrameUnlock == QueueFrameUnlock("destroy_fq", "destroy_aq_lock")
DestroyAudioLock == QueueAudioLock("destroy_aq_lock", "destroy_aq")
DestroyAudioUnlock == QueueAudioUnlock("destroy_aq", "destroyed")

DestroyQueues ==
    \/ DestroyFrameLock \/ DestroyFrameUnlock
    \/ DestroyAudioLock \/ DestroyAudioUnlock

\* the host's calls
Host == HostUpdate \/ HostActivate \/ HostDeactivate \/ HostDestroy

Update == UpdateCheck \/ UpdateReplace

Activate == ActivateRefuse \/ ActivateConnect \/ ActivateMark

Deactivate ==
    \/ DeactivateEntry \/ DeactivateClose \/ DeactivateQueues
    \/ DeactivateLock \/ DeactivateDestroy \/ DeactivateReset

Destroy == DestroyClose \/ DestroyLock \/ DestroyDecoders \/ DestroyQueues

Control == Host \/ Update \/ Activate \/ Deactivate \/ Destroy

(* ------------------- session-status and catalog callbacks ------------- *)
\* the transport reports a status once per step of a session's life: 0 when a
\* new session connects, a negative code when a session not yet failed fails;
\* a positive code may come at any time
StatusDue(id, code) ==
    CASE code = 0 -> hkind[id] = "session"
      [] code < 0 -> hkind[id] \in {"session", "session_connected"}
      [] OTHER -> hkind[id] \in {"session", "session_connected", "session_failed"}

\* on_session_status(code), code > 0: ignored
SessionStatusIgnored ==
    /\ epc = "idle" /\ cpc # "destroyed"
    /\ \E id \in 1..MaxId, code \in StatusCodes : code > 0 /\ StatusDue(id, code)
    /\ UNCHANGED vars

\* on_session_status(code), code < 0: the source is marked inactive
SessionFailed ==
    /\ epc = "idle" /\ cpc # "destroyed"
    /\ \E id \in 1..MaxId, code \in StatusCodes :
         /\ code < 0 /\ StatusDue(id, code)
         /\ hkind' = [hkind EXCEPT ![id] = "session_failed"]
    /\ context' = [context EXCEPT !.active = FALSE]
    /\ UNCHANGED <<mutexes, ctl, epc, th, hbad, lastClosed, closeOrderBroken, sinkLog, unit>>

\* on_session_status(0): subscribe to the broadcast
SessionConnected ==
    /\ epc = "idle" /\ cpc # "destroyed"
    /\ \E id \in 1..MaxId :
         /\ StatusDue(id, 0)
         /\ LET T0 == [Cur EXCEPT !.hk[id] = "session_connected"]
            IN \E b \in CreateResults(T0, Live(T0, context.origin_id)) :
                 LET T1 == Assign(T0, "broadcast_id", "broadcast", b)
                 IN IF b <= 0
                    THEN Commit([T1 EXCEPT !.c.active = FALSE]) /\ epc' = "idle"
                    ELSE Commit(T1) /\ epc' = "s_catalog"
    /\ UNCHANGED <<mutexes, ctl, th, sinkLog, unit>>

\* on_session_status(0): subscribe to the catalog; on failure close the broadcast
SessionCatalog ==
    /\ epc = "s_catalog"
    /\ \E k \in CreateResults(Cur, Live(Cur, context.broadcast_id)) :
         LET T1 == Assign(Cur, "catalog_consumer_id", "catalog", k)
         IN IF k <= 0
            THEN Commit([CloseId(T1, T1.c.broadcast_id)
                            EXCEPT !.c.broadcast_id = 0, !.c.active = FALSE])
            ELSE Commit(T1)
    /\ epc' = "idle"
    /\ UNCHANGED <<mutexes, ctl, th, sinkLog, unit>>

\* on_catalog: return when inactive or on a catalog error
CatalogIgnored ==
    /\ epc = "idle" /\ cpc # "destroyed"
    /\ LiveKind("catalog")
    /\ \E catalog_id \in CallbackIds : ~context.active \/ catalog_id <= 0
    /\ UNCHANGED vars

\* on_catalog: close the existing track subscriptions, video first
CatalogCloseTracks ==
    /\ epc = "idle" /\ cpc # "destroyed"
    /\ LiveKind("catalog")
    /\ context.active
    /\ Commit(CloseFields(Cur, <<"video_track_id", "audio_track_id">>))
    /\ epc' = "c_lock"
    /\ UNCHANGED <<mutexes, ctl, th, sinkLog, unit>>

\* on_catalog: pthread_mutex_lock(&decoder_mutex)
CatalogLock ==
    /\ epc = "c_lock"
    /\ decoder_mutex = "free"
    /\ decoder_mutex' = "ev"
    /\ epc' = "c_destroy"
    /\ UNCHANGED <<context, frame_mutex, audio_mutex, ctl, th, transport, sinkLog, unit>>

\* on_catalog: destroy the existing decoders, unlock
CatalogDestroy ==
    /\ epc = "c_destroy"
    /\ context' = audio_decoder_destroy(nvdec_decoder_destroy(context))
    /\ th' = MarkFreed(context, th)
    /\ decoder_mutex' \in GateAfterUnlock("ev")
    /\ epc' = "c_vinit"
    /\ UNCHANGED <<frame_mutex, audio_mutex, ctl, transport, sinkLog, unit>>

\* nvdec_decoder_init: allocate the decoder and publish it in the context
CatalogVideoAlloc ==
    /\ epc = "c_vinit"
    /\ context' = [context EXCEPT !.nvdec_context = PartialDecoder]
    /\ epc' = "c_vopen"
    /\ UNCHANGED <<mutexes, ctl, th, transport, sinkLog, unit>>

\* nvdec_decoder_init: find, allocate and open the codec; on failure free the
\* decoder and on_catalog marks the source inactive
CatalogVideoOpen ==
    /\ epc = "c_vopen"
    /\ \E opened \in BOOLEAN :
         IF opened
         THEN /\ context' = [context EXCEPT !.nvdec_context = OpenDecoder]
              /\ th' = th
              /\ epc' = "c_ainit"
         ELSE /\ context' = [nvdec_decoder_destroy(context) EXCEPT !.active = FALSE]
              /\ th' = MarkFreed(context, th)
              /\ epc' = "idle"
    /\ UNCHANGED <<mutexes, ctl, transport, sinkLog, unit>>

\* on_catalog: audio_decoder_init; on failure destroy the video decoder, go inactive
CatalogAudioInit ==
    /\ epc = "c_ainit"
    /\ \E opened \in BOOLEAN :
         IF opened
         THEN /\ context' = [context EXCEPT !.audio_decoder_context = TRUE]
              /\ th' = th
              /\ epc' = "c_vsub"
         ELSE /\ context' = [nvdec_decoder_destroy(context) EXCEPT !.active = FALSE]
              /\ th' = MarkFreed(context, th)
              /\ epc' = "idle"
    /\ UNCHANGED <<mutexes, ctl, transport, sinkLog, unit>>

\* on_catalog: subscribe to video track 0; a failure is only logged
CatalogSubscribeVideo ==
    /\ epc = "c_vsub"
    /\ \E v \in CreateResults(Cur, Live(Cur, context.broadcast_id)) :
         Commit(Assign(Cur, "video_track_id", "video", v))
    /\ epc' = "c_asub"
    /\ UNCHANGED <<mutexes, ctl, th, sinkLog, unit>>

\* on_catalog: subscribe to audio track 0; a failure is only logged
CatalogSubscribeAudio ==
    /\ epc = "c_asub"
    /\ \E a \in CreateResults(Cur, Live(Cur, context.broadcast_id)) :
         Commit(Assign(Cur, "audio_track_id", "audio", a))
    /\ epc' = "idle"
    /\ UNCHANGED <<mutexes, ctl, th, sinkLog, unit>>

Events ==
    \/ SessionStatusIgnored \/ SessionFailed \/ SessionConnected \/ SessionCatalog
    \/ CatalogIgnored \/ CatalogCloseTracks \/ CatalogLock \/ CatalogDestroy
    \/ CatalogVideoAlloc \/ CatalogVideoOpen \/ CatalogAudioInit
    \/ CatalogSubscribeVideo \/ CatalogSubscribeAudio

(* ------------------------- bitstream normalizer ----------------------- *)
\* the four length bytes read with the least significant byte first
NalLengthLittleEndian(data, pos) ==
    data[pos + 1] + data[pos + 2] * 256 + data[pos + 3] * 65536 + data[pos + 4] * 16777216

\* the 4-byte big-endian length at 0-based offset pos (bytes are 0..255, so the
\* value fits the uint32_t it is stored in)
NalLength(data, pos) ==
    data[pos + 1] * 16777216 + data[pos + 2] * 65536 + data[pos + 3] * 256 + data[pos + 4]

\* a failure that hands the bytes written so far to the caller
InvalidLengthKeepsBuffer(out) == [ok |-> FALSE, out |-> out]

\* the invalid-length exit: the buffer is freed, *out_data and *out_size are
\* not written
InvalidLength(out) == [ok |-> FALSE, out |-> <<>>]

\* convert_mp4_nal_units_to_annex_b: the loop from offset pos with output out
RECURSIVE ConvertFrom(_, _, _)
ConvertFrom(data, pos, out) ==
    IF pos + 4 <= Len(data)
    THEN LET nal_length == NalLength(data, pos)
             start == pos + 4
         IN IF start + nal_length > Len(data)
            THEN InvalidLength(out)
            ELSE ConvertFrom(data, start + nal_length,
                             out \o <<0, 0, 0, 1>>
                                 \o SubSeq(data, start + 1, start + nal_length))
    ELSE [ok |-> TRUE, out |-> out]

convert_mp4_nal_units_to_annex_b(data) == ConvertFrom(data, 0, <<>>)

(* ------------------------ video frame callback ------------------------ *)
\* moq_consume_frame_close(frame_id): one release less is owed for the frame
CloseFrame(r) == [r EXCEPT !.owed = @ - 1]

\* a callback returns: only the releases it still owes outlive the call
Returned(r) == [IdleThread EXCEPT !.owed = r.owed]

\* on_video_frame / on_audio_frame before the gate: the unlocked active check,
\* the frame_id check and the chunk read
FrameEntry(t, nextpc) ==
    \E frame_id \in CallbackIds, chunk_ok \in BOOLEAN :
        LET r == [IdleThread EXCEPT !.owed = IF frame_id > 0 THEN 1 ELSE 0]
        IN th' = [th EXCEPT ![t] =
                    IF ~context.active
                    THEN (IF frame_id > 0 THEN CloseFrame(r) ELSE r)
                    ELSE IF frame_id <= 0 THEN r
                    ELSE IF ~chunk_ok THEN CloseFrame(r)
                    ELSE [r EXCEPT !.pc = nextpc]]

\* a reject path that forgets the frame
RecheckRejectLeak(r) == Returned(r)

\* the recheck under the gate failed: unlock, release the frame, return
RecheckReject(r) == Returned(CloseFrame(r))

\* on_video_frame, if (!decoded): pthread_mutex_unlock(&context->decoder_mutex)
UnlockAfterFailure(t) == GateAfterUnlock(t)

\* on_video_frame after nvdec_decoder_decode returned `decoded`:
\* unlock only if it failed, release the frame, return
VideoReturn(t, decoded) ==
    /\ decoder_mutex' \in (IF decoded THEN {decoder_mutex} ELSE UnlockAfterFailure(t))
    /\ th' = [th EXCEPT ![t] = Returned(CloseFrame(th[t]))]

VideoEntry(t) ==
    /\ th[t].pc = "idle" /\ cpc # "destroyed"
    /\ LiveKind("video")
    /\ FrameEntry(t, "v_lock")
    /\ UNCHANGED <<context, mutexes, ctl, ev, transport, sinkLog, unit>>

\* on_video_frame: take the gate, recheck active and the decoder
VideoLock(t) ==
    /\ th[t].pc = "v_lock"
    /\ decoder_mutex = "free"
    /\ IF ~context.active \/ ~context.nvdec_context.alloc
       THEN /\ th' = [th EXCEPT ![t] = RecheckReject(th[t])]
            /\ decoder_mutex' = decoder_mutex
       ELSE /\ th' = [th EXCEPT ![t].pc = "v_decode", ![t].dec = "ok"]
            /\ decoder_mutex' = t
    /\ UNCHANGED <<context, frame_mutex, audio_mutex, ctl, ev, transport, sinkLog, unit>>

\* decode_frame up to the drain loop: normalize the payload, send the packet
VideoSubmit(t) ==
    /\ th[t].pc = "v_decode"
    /\ \E payload \in Payloads, sent \in BOOLEAN :
         IF convert_mp4_nal_units_to_annex_b(payload).ok /\ sent
         THEN /\ th' = [th EXCEPT ![t].pc = "v_drain", ![t].success = FALSE,
                                  ![t].drained = 0]
              /\ decoder_mutex' = decoder_mutex
         ELSE /\ th' = [th EXCEPT ![t].pc = "v_failed"]
              /\ decoder_mutex' = decoder_mutex
    /\ UNCHANGED <<context, frame_mutex, audio_mutex, ctl, ev, transport, sinkLog, unit>>

\* decode_frame returned false before its drain loop: on_video_frame unlocks
\* the gate and releases the frame
VideoFailed(t) ==
    /\ th[t].pc = "v_failed"
    /\ VideoReturn(t, FALSE)
    /\ UNCHANGED <<context, frame_mutex, audio_mutex, ctl, ev, transport, sinkLog, unit>>

\* outcomes of one pass of the drain loop
\* no frame received: the loop ends, success keeps its value
DrainEnds == {"eagain", "eof", "receive_error", "frame_alloc_fail"}
\* a frame was received (success = true) and dropped inside decode_frame: break
FrameDrops == {"sws_ctx_fail", "rgba_alloc_fail", "sws_scale_fail", "zero_dimension"}
\* a frame was received and handed to output_decoded_frame
FrameOutputs == {"oversize", "emit"}

EmitsInFlight == Cardinality({t \in VThreads : th[t].pc \in {"v_out", "v_ts", "v_sink"}})

\* decode_frame's loop sets decoder->sws_ctx on the first frame it converts
WithSwsCtx(c, r) ==
    IF r.dec = "ok" /\ c.nvdec_context.alloc
    THEN [c EXCEPT !.nvdec_context.sws_ctx = TRUE]
    ELSE c

\* one pass of decode_frame's drain loop
VideoDrain(t) ==
    /\ th[t].pc = "v_drain"
    /\ \E o \in DrainEnds \cup
                (IF th[t].drained < MaxDrain THEN FrameDrops \cup FrameOutputs ELSE {}) :
         /\ o = "sws_ctx_fail" => (th[t].dec = "freed" \/ ~context.nvdec_context.sws_ctx)
         /\ o = "emit" => Len(sinkLog) + EmitsInFlight < MaxEmit
         /\ context' = IF o \in DrainEnds \cup {"sws_ctx_fail"}
                       THEN context ELSE WithSwsCtx(context, th[t])
         /\ CASE o \in DrainEnds -> VideoReturn(t, th[t].success)
              [] o \in FrameDrops -> VideoReturn(t, TRUE)
              [] o = "oversize" ->
                  \* output_decoded_frame rejects the dimensions: free, unlock, return
                  /\ decoder_mutex' \in GateAfterUnlock(t)
                  /\ th' = [th EXCEPT ![t].success = TRUE, ![t].drained = @ + 1]
              [] o = "emit" ->
                  /\ decoder_mutex' = decoder_mutex
                  /\ th' = [th EXCEPT ![t].success = TRUE, ![t].pc = "v_out"]
    /\ UNCHANGED <<frame_mutex, audio_mutex, ctl, ev, transport, sinkLog, unit>>

\* output_decoded_frame: copy active, pthread_mutex_lock(&frame_mutex)
VideoOutputLock(t) ==
    /\ th[t].pc = "v_out"
    /\ frame_mutex = "free"
    /\ frame_mutex' = t
    /\ th' = [th EXCEPT ![t].pc = "v_ts", ![t].is_active = context.active]
    /\ UNCHANGED <<context, decoder_mutex, audio_mutex, ctl, ev, transport, sinkLog, unit>>

\* the timestamp output_decoded_frame assigns to a frame with PTS pts_us
MapTimestamp(c, pts_us) ==
    LET obs_timestamp_ns == U64Mul(pts_us, 1000)
    IN IF ~c.has_first_frame THEN obs_timestamp_ns
       ELSE IF U64Leq(obs_timestamp_ns, c.last_output_timestamp_ns)
            THEN U64Inc(c.last_output_timestamp_ns)
            ELSE obs_timestamp_ns

\* output_decoded_frame: update the timestamp state, unlock frame_mutex, then
\* unlock decoder_mutex before the host is called
VideoTimestamp(t) ==
    /\ th[t].pc = "v_ts"
    /\ \E pts_us \in Pts :
         LET ns == MapTimestamp(context, pts_us)
         IN /\ context' = [context EXCEPT !.has_first_frame = TRUE,
                                          !.last_output_timestamp_ns = ns]
            /\ th' = [th EXCEPT ![t].pc = "v_sink", ![t].ts = ns]
    /\ frame_mutex' = "free"
    /\ decoder_mutex' \in GateAfterUnlock(t)
    /\ UNCHANGED <<audio_mutex, ctl, ev, transport, sinkLog, unit>>

\* output_decoded_frame: obs_source_output_video if the source was active, free
\* the buffer; decode_frame's loop goes on
VideoSink(t) ==
    /\ th[t].pc = "v_sink"
    /\ sinkLog' = IF th[t].is_active THEN Append(sinkLog, th[t].ts) ELSE sinkLog
    /\ th' = [th EXCEPT ![t].pc = "v_drain", ![t].drained = @ + 1,
                        ![t].is_active = FALSE, ![t].ts = U64Zero]
    /\ UNCHANGED <<context, mutexes, ctl, ev, transport, unit>>

(* ------------------------ audio frame callback ------------------------ *)
AudioEntry(t) ==
    /\ th[t].pc = "idle" /\ cpc # "destroyed"
    /\ LiveKind("audio")
    /\ FrameEntry(t, "a_lock")
    /\ UNCHANGED <<context, mutexes, ctl, ev, transport, sinkLog, unit>>

\* on_audio_frame: take the gate, recheck active and the decoder
AudioLock(t) ==
    /\ th[t].pc = "a_lock"
    /\ decoder_mutex = "free"
    /\ IF ~context.active \/ ~context.audio_decoder_context
       THEN /\ th' = [th EXCEPT ![t] = RecheckReject(th[t])]
            /\ decoder_mutex' = decoder_mutex
       ELSE /\ th' = [th EXCEPT ![t].pc = "a_decode"]
            /\ decoder_mutex' = t
    /\ UNCHANGED <<context, frame_mutex, audio_mutex, ctl, ev, transport, sinkLog, unit>>

\* on_audio_frame: audio_decoder_decode under the gate; a decode that produced
\* no samples returns, and on_audio_frame unlocks and releases the frame
AudioDecode(t) ==
    /\ th[t].pc = "a_decode"
    /\ \E samples \in BOOLEAN :
         IF samples
         THEN /\ th' = [th EXCEPT ![t].pc = "a_sink"]
              /\ decoder_mutex' = decoder_mutex
         ELSE /\ th' = [th EXCEPT ![t] = Returned(CloseFrame(th[t]))]
              /\ decoder_mutex' \in GateAfterUnlock(t)
    /\ UNCHANGED <<context, frame_mutex, audio_mutex, ctl, ev, transport, sinkLog, unit>>

\* audio_decoder_decode hands the samples to the host audio sink and returns;
\* on_audio_frame unlocks and releases the frame
AudioSink(t) ==
    /\ th[t].pc = "a_sink"
    /\ decoder_mutex' \in GateAfterUnlock(t)
    /\ th' = [th EXCEPT ![t] = Returned(CloseFrame(th[t]))]
    /\ UNCHANGED <<context, frame_mutex, audio_mutex, ctl, ev, transport, sinkLog, unit>>

on_video_frame(t) ==
    \/ VideoEntry(t) \/ VideoLock(t) \/ VideoSubmit(t) \/ VideoFailed(t) \/ VideoDrain(t)
    \/ VideoOutputLock(t) \/ VideoTimestamp(t) \/ VideoSink(t)

on_audio_frame(t) == AudioEntry(t) \/ AudioLock(t) \/ AudioDecode(t) \/ AudioSink(t)

Frames ==
    \/ \E t \in VThreads : on_video_frame(t)
    \/ \E t \in AThreads : on_audio_frame(t)

Next == Control \/ Events \/ Frames

\* the whole program
Spec == Init /\ [][Next]_vars

\* the control thread and the session and catalog callbacks, no frame delivered
LifecycleSpec == Init /\ [][Control \/ Events]_vars

ValidSettings == [url |-> <<"s", ":", "/", "/", "h">>, broadcast |-> <<"p">>]

StreamingInit == Init /\ arg = ValidSettings

\* create with valid settings: update, its deactivate of the new source, activate
Bringup == Update \/ DeactivateEntry \/ ActivateConnect \/ ActivateMark

\* one activation that the host leaves alone, with two video callback threads
EmissionNext == Bringup \/ Events \/ (\E t \in VThreads : on_video_frame(t))

EmissionSpec == StreamingInit /\ [][EmissionNext]_vars

\* one activation that the host leaves alone, with a video and an audio
\* callback thread
CallbackNext == Bringup \/ Events \/ on_video_frame("v1") \/ on_audio_frame("a1")

CallbackSpec == StreamingInit /\ [][CallbackNext]_vars

\* an activation that the host deactivates, with one video callback thread
TeardownNext ==
    \/ Bringup \/ HostDeactivate \/ Deactivate
    \/ Events \/ on_video_frame("v1")

TeardownSpec == StreamingInit /\ [][TeardownNext]_vars

(* ------------------- the timestamp mapper in isolation ---------------- *)
MaxFrames == 3
\* PTS values a frame can carry: 0 s, 1 s, 2 s, and 2^63 us (timestamp_us is
\* whatever uint64_t the publisher sent)
PtsValues == {U64Zero, U64(1000000), U64(2000000), <<0, 0, 0, 32768>>}
PtsSequences == UNION { [1..n -> PtsValues] : n \in 0..MaxFrames }

MapperInit ==
    Constructed /\ arg = ValidSettings /\ input \in PtsSequences /\ output = <<>>

\* output_decoded_frame's timestamp block, applied to the next PTS of the input
MapperStep ==
    /\ Len(output) < Len(input)
    /\ LET ns == MapTimestamp(context, input[Len(output) + 1])
       IN /\ context' = [context EXCEPT !.has_first_frame = TRUE,
                                        !.last_output_timestamp_ns = ns]
          /\ output' = Append(output, ns)
    /\ UNCHANGED <<mutexes, ctl, ev, th, transport, sinkLog, input>>

MapperSpec == MapperInit /\ [][MapperStep]_vars

(* ------------------ the bitstream normalizer in isolation ------------- *)
MaxNals == 2
MaxNalLen == 2
\* payload bytes
NalBytes == {0, 7}
Nals == UNION { [1..n -> NalBytes] : n \in 0..MaxNalLen }
NalLists == UNION { [1..n -> Nals] : n \in 0..MaxNals }

\* the MP4 form of a list of NAL units: each behind its 4-byte big-endian length
RECURSIVE Mp4(_)
Mp4(nals) ==
    IF nals = <<>> THEN <<>>
    ELSE <<0, 0, 0, Len(Head(nals))>> \o Head(nals) \o Mp4(Tail(nals))

\* each list of NAL units with its MP4 form
Mp4Table == { [nals |-> nals, mp4 |-> Mp4(nals)] : nals \in NalLists }

\* frame payloads: the MP4 form of every list of NAL units, and every prefix
\* of one (a payload cut short)
Mp4Payloads ==
    UNION { { SubSeq(Mp4(nals), 1, k) : k \in 0..Len(Mp4(nals)) } : nals \in NalLists }

\* length fields that announce more bytes than any payload here holds
LongLengths == { <<0, 0, 0, 9>>, <<0, 0, 1, 0>>, <<64, 0, 0, 0>> }

\* frame payloads with a bad length: at most one well-formed NAL unit, then a
\* length field followed by fewer bytes than it announces
OverrunPayloads ==
    { Mp4(head) \o len \o body :
        head \in {<<>>} \cup { <<n>> : n \in Nals }, len \in LongLengths, body \in Nals }

NormalizerInit ==
    /\ Constructed /\ arg = ValidSettings
    /\ input \in Mp4Payloads \cup OverrunPayloads
    /\ output = <<>>

\* decode_frame: convert_mp4_nal_units_to_annex_b(data, size, &annexb_data, &annexb_size)
NormalizerStep ==
    /\ output = <<>>
    /\ output' = <<convert_mp4_nal_units_to_annex_b(input)>>
    /\ UNCHANGED <<context, mutexes, ctl, ev, th, transport, sinkLog, input>>

\* decode_frame after a successful conversion: the packet carrying the
\* converted bytes is handed to avcodec_send_packet
NormalizerSubmit ==
    /\ Len(output) = 1 /\ output[1].ok
    /\ output' = Append(output, [packet |-> output[1].out])
    /\ UNCHANGED <<context, mutexes, ctl, ev, th, transport, sinkLog, input>>

NormalizerNext == NormalizerStep \/ NormalizerSubmit

NormalizerSpec == NormalizerInit /\ [][NormalizerNext]_vars

(* ----------------- the RGBA buffer of the drain loop ------------------ *)
\* what the passes of decode_frame's loop meet, one outcome per pass; past the
\* last one avcodec_receive_frame reports EAGAIN
DrainOutcomes == DrainEnds \cup FrameDrops \cup FrameOutputs
DrainSequences == UNION { [1..n -> DrainOutcomes] : n \in 0..MaxDrain }

\* decode_frame has sent the packet and enters its loop; buffers are named by
\* the pass that allocates them
DrainEntered ==
    [pc |-> "receive", pass |-> 1, rgba_data |-> 0, is_active |-> FALSE,
     allocated |-> {}, freed |-> <<>>, emitted |-> <<>>]

DrainInit ==
    /\ Constructed /\ arg = ValidSettings
    /\ input \in DrainSequences
    /\ output = DrainEntered

\* the outcome of the current pass
PassOutcome == IF output.pass <= Len(input) THEN input[output.pass] ELSE "eagain"

\* a release that leaves the buffer allocated
BufferKept(u, data) == [u EXCEPT !.rgba_data = 0]

\* bfree(data)
ReleaseBuffer(u, data) == [u EXCEPT !.freed = Append(@, data), !.rgba_data = 0]

\* break: the loop ends and decode_frame returns
DrainBreak(u) == [u EXCEPT !.pc = "return"]

\* the loop goes on with its next pass
DrainContinue(u) == [u EXCEPT !.pc = "receive", !.pass = @ + 1, !.is_active = FALSE]

DrainFrame == UNCHANGED <<context, mutexes, ctl, ev, th, transport, sinkLog, input>>

\* av_frame_alloc, avcodec_receive_frame, sws_getContext
DrainReceive ==
    /\ output.pc = "receive"
    /\ output' = IF PassOutcome \in DrainEnds \cup {"sws_ctx_fail"}
                 THEN DrainBreak(output)
                 ELSE [output EXCEPT !.pc = "alloc"]
    /\ DrainFrame

\* rgba_data = bzalloc(rgba_size)
DrainAllocate ==
    /\ output.pc = "alloc"
    /\ output' = IF PassOutcome = "rgba_alloc_fail"
                 THEN DrainBreak(output)
                 ELSE [output EXCEPT !.pc = "scale", !.rgba_data = output.pass,
                                     !.allocated = @ \cup {output.pass}]
    /\ DrainFrame

\* sws_scale; on failure bfree(rgba_data) and break
DrainScale ==
    /\ output.pc = "scale"
    /\ output' = IF PassOutcome = "sws_scale_fail"
                 THEN DrainBreak(ReleaseBuffer(output, output.rgba_data))
                 ELSE [output EXCEPT !.pc = "validate"]
    /\ DrainFrame

\* the width and height check before output; on failure bfree(rgba_data) and break
DrainValidate ==
    /\ output.pc = "validate"
    /\ output' = IF PassOutcome = "zero_dimension"
                 THEN DrainBreak(ReleaseBuffer(output, output.rgba_data))
                 ELSE [output EXCEPT !.pc = "output"]
    /\ DrainFrame

\* output_decoded_frame: the dimension check frees the buffer and returns;
\* otherwise active is copied, which a callback or deactivate may have cleared
OutputDimensions ==
    /\ output.pc = "output"
    /\ \/ /\ PassOutcome = "oversize"
          /\ output' = DrainContinue(ReleaseBuffer(output, output.rgba_data))
       \/ /\ PassOutcome # "oversize"
          /\ \E is_active \in BOOLEAN :
                output' = [output EXCEPT !.pc = "sink", !.is_active = is_active]
    /\ DrainFrame

\* output_decoded_frame after the gate is released: an inactive source frees
\* the buffer and returns
OutputInactive ==
    /\ output.pc = "sink" /\ ~output.is_active
    /\ output' = DrainContinue(ReleaseBuffer(output, output.rgba_data))
    /\ DrainFrame

\* output_decoded_frame: obs_source_output_video(source, &obs_frame), bfree(data)
OutputEmit ==
    /\ output.pc = "sink" /\ output.is_active
    /\ output' = DrainContinue(ReleaseBuffer(
                     [output EXCEPT !.emitted = Append(@, output.rgba_data)],
                     output.rgba_data))
    /\ DrainFrame

DrainNext ==
    \/ DrainReceive \/ DrainAllocate \/ DrainScale \/ DrainValidate
    \/ OutputDimensions \/ OutputInactive \/ OutputEmit

DrainSpec == DrainInit /\ [][DrainNext]_vars

(* ------------------------------ properties ---------------------------- *)
DeactivatePcs ==
    {"deact_entry", "deact_close", "deact_queues", "deact_fq", "deact_aq_lock",
     "deact_aq", "deact_lock", "deact_destroy",
     "deact_reset"}

\* a step in which hang_source_deactivate returns to its caller
DeactivateReturns == cpc \in DeactivatePcs /\ cpc' \notin DeactivatePcs

\* C1 - handle release balance: when deactivate returns with no callback in
\* flight, every handle the transport issued has been closed, and no close was
\* ever made on an id that was not live (so each was closed exactly once).
HandleReleaseBalance ==
    [][(DeactivateReturns /\ epc = "idle")
          => /\ \A id \in 1..MaxId : hkind'[id] = "none"
             /\ ~hbad']_vars

\* C2 - no use-after-free: no thread is inside a decode call on the video
\* decoder (from the packet submission to the end of the drain loop) once
\* another thread has destroyed that decoder.
NoUseAfterFree ==
    \A t \in VThreads : th[t].pc \in DecodePcs => th[t].dec = "ok"

\* C3 - monotonic emission: the timestamps handed to the host video sink in one
\* activation, in the order of the sink calls, are strictly increasing.
MonotonicEmission ==
    \A i \in 1..(Len(sinkLog) - 1) : U64Less(sinkLog[i], sinkLog[i + 1])

\* C4 - frame release balance: a frame callback never releases its frame twice,
\* and when it has returned it owes no release: a frame with frame_id > 0 was
\* released exactly once, on every return path.
FrameReleaseBalance ==
    \A t \in FrameThreads :
        /\ th[t].owed >= 0
        /\ th[t].pc = "idle" => th[t].owed = 0

\* a video callback went through a successful decode that emitted a frame and
\* has returned, and an audio callback is between its two checks of active
FrameReleaseWitness ==
    /\ sinkLog # <<>>
    /\ th["v1"].pc = "idle" /\ th["v1"].owed = 0
    /\ th["a1"].pc = "a_lock" /\ th["a1"].owed = 1

\* C5 - teardown order: the close calls made with no create in between follow
\* the order (audio_track, video_track, catalog, broadcast, session, origin);
\* the audio track is never closed after the video track.
TeardownOrder == ~closeOrderBroken

\* C6 - deactivate terminates: a frame callback that took the decoder gate has
\* released it when it returns, whatever its decode did, so that a deactivate
\* waiting for the gate gets it.
GateReleasedOnReturn ==
    \A t \in FrameThreads : th[t].pc = "idle" => decoder_mutex # t

\* C7 - deactivate is safe in any state: when it returns, every handle field
\* is zero, both decoders are absent, the timestamp state is reset and no close
\* was made on a handle that was not live.
DeactivateLeavesClean ==
    [][DeactivateReturns
          => /\ \A i \in 1..Len(HandleFields) : context'[HandleFields[i]] = 0
             /\ context'.nvdec_context = NoDecoder
             /\ ~context'.audio_decoder_context
             /\ ~context'.has_first_frame
             /\ context'.last_output_timestamp_ns = U64Zero
             /\ ~hbad']_vars

\* C8 - invalid configuration is refused: activate with an empty URL or
\* broadcast path, with a URL without "://" or with nothing after "://" makes
\* no transport call, leaves active false and every handle field unchanged.
InvalidConfigRefused ==
    [][(/\ cpc = "act_entry" /\ cpc' # cpc
        /\ \/ context.url \in {Null, <<>>}
           \/ context.broadcast_path \in {Null, <<>>}
           \/ \A i \in 1..(Len(context.url) - 2) : SubSeq(context.url, i, i + 2) # SchemeSep
           \/ \E i \in 1..(Len(context.url) - 2) :
                 /\ SubSeq(context.url, i, i + 2) = SchemeSep
                 /\ \A j \in 1..(i - 1) : SubSeq(context.url, j, j + 2) # SchemeSep
                 /\ i + 2 = Len(context.url))
          => /\ cpc' = "idle"
             /\ UNCHANGED transport
             /\ ~context'.active
             /\ \A i \in 1..Len(HandleFields) :
                   context'[HandleFields[i]] = context[HandleFields[i]]]_vars

\* update stored a URL with a scheme and no host together with a broadcast
\* path, called activate, and activate has returned
InvalidConfigWitness ==
    /\ cpc = "idle"
    /\ context.url = <<"s", ":", "/", "/">> /\ context.broadcast_path = <<"p">>
    /\ ~context.active
    /\ \A id \in 1..MaxId : hkind[id] = "none"

\* C9 - resource-create failure tears down: when a create of the bring-up
\* chain returns id <= 0, the handler that made the call closes every handle
\* the context holds, in teardown order, and leaves the source inactive.
CreateFailureTearsDown ==
    [][(\E i \in 1..Len(HandleFields) :
            context'[HandleFields[i]] < 0 /\ context[HandleFields[i]] >= 0)
          => /\ ~context'.active
             /\ \A i \in 1..Len(HandleFields) : context'[HandleFields[i]] <= 0
             /\ ~closeOrderBroken']_vars

\* C10 - update: with both settings equal to the stored ones it returns without
\* a transport call or a state change; otherwise it runs deactivate, stores the
\* new URL and path, and calls activate exactly when both are non-empty.
UpdateSemantics ==
    [][/\ (/\ cpc = "upd_check" /\ cpc' # cpc
           /\ context.url = arg.url /\ context.broadcast_path = arg.broadcast)
          => (cpc' = "idle" /\ UNCHANGED <<context, transport, mutexes>>)
       /\ (/\ cpc = "upd_check" /\ cpc' # cpc
           /\ (context.url # arg.url \/ context.broadcast_path # arg.broadcast))
          => (cpc' = "deact_entry" /\ cret' = "update")
       /\ (cret = "update" /\ cpc \in DeactivatePcs)
          => (arg' = arg /\ cpc' \in DeactivatePcs \cup {"upd_replace"})
       /\ (cpc = "upd_replace" /\ cpc' # cpc)
          => /\ context'.url = arg.url
             /\ context'.broadcast_path = arg.broadcast
             /\ UNCHANGED transport
             /\ cpc' = IF arg.url # <<>> /\ arg.broadcast # <<>>
                       THEN "act_entry" ELSE "idle"]_vars

\* the host's update changed a setting of a source that had settings: its
\* deactivate has run and the new settings are about to be stored
UpdateWitness ==
    /\ cpc = "upd_replace" /\ ops > 0
    /\ context.url # Null /\ context.url # arg.url
    /\ context.broadcast_path = arg.broadcast

\* the handle a field of the context names is live
FieldLive(f) == context[f] > 0 /\ Live(Cur, context[f])

\* C11 - handle chain: in every state a live catalog consumer implies a live
\* broadcast, a live broadcast implies a live session whose last status is 0
\* (connected, no later negative status), and a live session implies a live
\* origin.
HandleChain ==
    /\ FieldLive("catalog_consumer_id") => FieldLive("broadcast_id")
    /\ FieldLive("broadcast_id")
          => (FieldLive("session_id") /\ hkind[context.session_id] = "session_connected")
    /\ FieldLive("session_id") => FieldLive("origin_id")

\* no control operation and no callback is in progress
Quiescent ==
    /\ cpc \in {"idle", "destroyed"}
    /\ epc = "idle"
    /\ \A t \in FrameThreads : th[t].pc = "idle"

\* C12 - decoder lifetime: when the source is inactive and nothing is in
\* progress, neither the video decoder nor the audio decoder exists.
DecoderLifetime ==
    (~context.active /\ Quiescent)
        => (context.nvdec_context = NoDecoder /\ ~context.audio_decoder_context)

\* a source on which the host calls activate again, with one video callback
\* thread
ReactivationNext ==
    \/ Bringup \/ HostActivate \/ ActivateRefuse
    \/ Events \/ on_video_frame("v1")

ReactivationSpec == StreamingInit /\ [][ReactivationNext]_vars

\* C13 - timestamp state is reset on every activation: when activate returns
\* with the source active, no frame counts as seen and last_output_ns is 0, so
\* that the first frame processed afterwards is given exactly p_us * 1000.
TimestampResetOnActivate ==
    [][(cpc = "act_mark" /\ cpc' # cpc /\ context'.active)
          => (~context'.has_first_frame /\ context'.last_output_timestamp_ns = U64Zero)]_vars

\* p * 1000 over the naturals: five limbs, nothing lost
Exact1000(p) ==
    LET p1 == p[1] * 1000
        p2 == p[2] * 1000 + (p1 \div Limb)
        p3 == p[3] * 1000 + (p2 \div Limb)
        p4 == p[4] * 1000 + (p3 \div Limb)
    IN <<p1 % Limb, p2 % Limb, p3 % Limb, p4 % Limb, p4 \div Limb>>

\* x + 1 and x < y over the naturals, on five limbs
ExactInc(x) ==
    LET i == CHOOSE k \in 1..5 : x[k] < Limb - 1 /\ \A j \in 1..(k - 1) : x[j] = Limb - 1
    IN [j \in 1..5 |-> IF j < i THEN 0 ELSE IF j = i THEN x[j] + 1 ELSE x[j]]

ExactLess(x, y) ==
    \E i \in 1..5 : x[i] < y[i] /\ \A j \in (i + 1)..5 : x[j] = y[j]

\* the reference timestamp of the i-th PTS of the input: t_1 = p_1 * 1000,
\* t_i = p_i * 1000 if that exceeds t_(i-1), else t_(i-1) + 1
RECURSIVE ReferenceTimestamp(_)
ReferenceTimestamp(i) ==
    LET t == Exact1000(input[i])
    IN IF i = 1 THEN t
       ELSE LET prev == ReferenceTimestamp(i - 1)
            IN IF ExactLess(prev, t) THEN t ELSE ExactInc(prev)

\* C14 - timestamp mapper result: for PTS values p_1..p_n processed in order in
\* one activation, the i-th assigned timestamp is the reference t_i (p_i * 1000,
\* or the previous timestamp plus 1 when that does not exceed it), and
\* last_output_ns is t_i after frame i.
TimestampMapperResult ==
    /\ \A i \in 1..Len(output) : Append(output[i], 0) = ReferenceTimestamp(i)
    /\ Len(output) > 0 => context.last_output_timestamp_ns = output[Len(output)]

\* the Annex-B form of a list of NAL units: each behind the start code
RECURSIVE AnnexB(_)
AnnexB(nals) ==
    IF nals = <<>> THEN <<>>
    ELSE <<0, 0, 0, 1>> \o Head(nals) \o AnnexB(Tail(nals))

\* the sum of the lengths of a list of NAL units
RECURSIVE TotalLength(_)
TotalLength(nals) ==
    IF nals = <<>> THEN 0 ELSE Len(Head(nals)) + TotalLength(Tail(nals))

\* C15 - bitstream round trip: on the concatenation of N length-prefixed NAL
\* units whose lengths sum to S (N = 0 and NAL units of zero or one byte
\* included) the normalizer succeeds, its output has S + 4N bytes and holds the
\* payloads in input order, each behind the start code 00 00 00 01.
BitstreamRoundTrip ==
    output # <<>>
        => \A e \in Mp4Table :
              input = e.mp4
                  => /\ output[1].ok
                     /\ Len(output[1].out) = TotalLength(e.nals) + 4 * Len(e.nals)
                     /\ output[1].out = AnnexB(e.nals)

\* the normalizer has run on a zero-byte NAL unit followed by a one-byte one
BitstreamRoundTripWitness ==
    /\ input = Mp4(<< <<>>, <<7>> >>)
    /\ output # <<>> /\ output[1].ok /\ Len(output[1].out) = 9

\* the session the context names has reported a negative status
SessionHasFailed == context.session_id > 0 /\ hkind[context.session_id] = "session_failed"

\* C16 - session failure does not self-retry: once the session of the context
\* has reported a negative status, active is false whenever no host call is in
\* progress, and until the host calls again no step creates a transport handle
\* or changes the context.
NoSelfRetry ==
    /\ []((SessionHasFailed /\ cpc = "idle") => ~context.active)
    /\ [][(SessionHasFailed /\ cpc = "idle" /\ cpc' = "idle")
            => /\ \A id \in 1..MaxId : hkind[id] = "none" => hkind'[id] = "none"
               /\ context' = context]_vars

\* decode_frame returns false before its drain loop: the payload did not
\* normalize or avcodec_send_packet turned the packet down
FrameRejected(t) == th[t].pc = "v_decode" /\ th'[t].pc = "v_failed"

\* on_video_frame returns after such a frame
RejectedFrameReturns(t) == th[t].pc = "v_failed" /\ th'[t].pc = "idle"

\* C17 - per-frame errors keep the session running: a video frame whose payload
\* is malformed or whose packet the decoder rejects emits nothing, leaves the
\* active flag, the handles, the decoders and the timestamp state as they
\* were, releases its frame and leaves the gate free, so that the callback for
\* the next frame starts from the state the source had before the bad one.
FrameErrorKeepsRunning ==
    [][\A t \in VThreads :
          (FrameRejected(t) \/ RejectedFrameReturns(t))
              => /\ context' = context /\ hkind' = hkind /\ sinkLog' = sinkLog
                 /\ frame_mutex' = frame_mutex /\ audio_mutex' = audio_mutex
                 /\ FrameRejected(t) => decoder_mutex' = decoder_mutex
                 /\ RejectedFrameReturns(t)
                       => /\ th'[t] = IdleThread
                          /\ decoder_mutex = t => decoder_mutex' = "free"]_vars

\* decode_frame has turned down a frame on an active source that has already
\* emitted a frame; the callback holds the gate and is about to return
FrameErrorWitness ==
    /\ th["v1"].pc = "v_failed" /\ decoder_mutex = "v1"
    /\ context.active /\ context.nvdec_context.alloc
    /\ sinkLog # <<>>

\* a step in which the video callback of thread t calls
\* pthread_mutex_unlock(&context->decoder_mutex): on_video_frame after a decode
\* that failed before its loop, output_decoded_frame on a frame it refuses,
\* output_decoded_frame before the host sink
VideoUnlocks(t) ==
    \/ th[t].pc = "v_failed" /\ th'[t].pc = "idle"
    \/ th[t].pc = "v_drain" /\ th'[t].pc = "v_drain"
    \/ th[t].pc = "v_ts" /\ th'[t].pc = "v_sink"

\* a step in which the video callback of thread t returns
VideoReturns(t) == th[t].pc # "idle" /\ th'[t].pc = "idle"

\* C18 - gate release balance on the video path: a video callback that took
\* the gate does not hold it when it returns, and it never unlocks the gate
\* while it does not hold it, whatever the decode did (normalizer failure,
\* packet rejected, no frame, one frame, several frames, a frame dropped
\* inside the drain loop).
GateReleaseBalance ==
    [][\A t \in VThreads :
          /\ VideoReturns(t) => decoder_mutex' # t
          /\ VideoUnlocks(t) => decoder_mutex = t]_vars

\* the thread is at a call that hands decoded video or audio to the host
AtHostSink(t) == th[t].pc \in {"v_sink", "a_sink"}

\* C19 - no lock across the host sink: a thread at a call that hands a decoded
\* video frame or decoded audio to the host holds none of the decoder gate,
\* the frame-state mutex and the audio-state mutex.
NoLockAcrossSink ==
    \A t \in FrameThreads :
        AtHostSink(t) => (decoder_mutex # t /\ frame_mutex # t /\ audio_mutex # t)

Threads == FrameThreads \cup {"ctl", "ev"}

\* thread x is at a pthread_mutex_lock(&context->decoder_mutex)
GateRequested(x) ==
    \/ x \in FrameThreads /\ th[x].pc \in {"v_lock", "a_lock"}
    \/ x = "ev" /\ epc = "c_lock"
    \/ x = "ctl" /\ cpc \in {"deact_lock", "destroy_lock"}

\* thread x is at a pthread_mutex_lock of frame_mutex or audio_mutex
StateMutexRequested(x) ==
    \/ x \in VThreads /\ th[x].pc = "v_out"
    \/ x = "ctl" /\ cpc \in {"deact_queues", "deact_aq_lock",
                             "destroy_queues", "destroy_aq_lock"}

\* C20 - lock ordering: no thread requests the decoder gate while it holds the
\* frame-state or the audio-state mutex, and a thread that requests a state
\* mutex holds no state mutex (it holds nothing, or the gate only).
LockOrdering ==
    \A x \in Threads :
        (GateRequested(x) \/ StateMutexRequested(x))
            => (frame_mutex # x /\ audio_mutex # x)

\* deactivate holds frame_mutex for its queue while a video callback that
\* holds the gate asks for frame_mutex
LockOrderingWitness ==
    /\ cpc = "deact_fq" /\ frame_mutex = "ctl"
    /\ th["v1"].pc = "v_out" /\ decoder_mutex = "v1"

\* on_catalog has created the new video decoder and has not yet subscribed the
\* new video track: every video frame in a callback comes from a subscription
\* made under an earlier catalog
NewDecoderOldTracks == epc \in {"c_vopen", "c_ainit", "c_vsub"}

\* C21 - catalog replacement leaves no mismatch window: when on_catalog starts
\* to create the new decoders the old tracks are closed and the old decoders
\* destroyed, and no frame of a subscription made under the previous catalog
\* is submitted to a decoder created for the new catalog.
NoMismatchWindow ==
    /\ epc = "c_vinit"
          => /\ ~LiveKind("video") /\ ~LiveKind("audio")
             /\ context.nvdec_context = NoDecoder /\ ~context.audio_decoder_context
    /\ NewDecoderOldTracks
          => \A t \in VThreads : ~(th[t].pc = "v_decode" /\ th[t].dec = "ok")

\* the step in which frame callback t, having taken the gate, finds the source
\* inactive or its decoder absent
RecheckFails(t) ==
    \/ /\ th[t].pc = "v_lock" /\ th'[t].pc # "v_lock"
       /\ (~context.active \/ ~context.nvdec_context.alloc)
    \/ /\ th[t].pc = "a_lock" /\ th'[t].pc # "a_lock"
       /\ (~context.active \/ ~context.audio_decoder_context)

\* C22 - cooperative cancellation: a frame callback that gets the gate when
\* active is cleared or its decoder is absent submits nothing, emits nothing
\* and releases the gate and the frame; deactivate never destroys the decoder
\* under a frame callback that is inside decode_frame on it.
CooperativeCancellation ==
    /\ [][\A t \in FrameThreads :
            RecheckFails(t)
                => /\ th'[t] = IdleThread
                   /\ decoder_mutex' # t
                   /\ context' = context /\ sinkLog' = sinkLog]_vars
    /\ [][(cpc = "deact_destroy" /\ cpc' # cpc)
            => \A t \in VThreads : th'[t].dec = "freed" => th[t].dec = "freed"]_vars

\* Failed: a callback has cleared active and left handles of the activation open
Failed ==
    /\ ~context.active
    /\ \E i \in 1..Len(HandleFields) : FieldLive(HandleFields[i])

\* C23 - Failed leaves only through deactivate: activate called on a Failed
\* source starts no bring-up, and no step replaces the id in a handle field
\* while the handle it names is still open.
FailedLeavesByDeactivate ==
    /\ [][(cpc = "act_entry" /\ cpc' # cpc /\ Failed)
            => (context' = context /\ hkind' = hkind)]_vars
    /\ [][\A i \in 1..Len(HandleFields) :
            LET f == HandleFields[i]
            IN (FieldLive(f) /\ context'[f] # context[f])
                  => hkind'[context[f]] = "none"]_vars

\* the MP4 forms of the lists of NAL units
Mp4Forms == { Mp4(nals) : nals \in NalLists }

\* the payload starts with the well-formed NAL units whole and the length
\* field read right after them announces more bytes than the payload has left
LengthOverruns(data, whole) ==
    LET pos == Len(whole)
    IN /\ pos + 4 <= Len(data)
       /\ SubSeq(data, 1, pos) = whole
       /\ pos + 4 + NalLength(data, pos) > Len(data)

\* C24 - malformed length fails the whole conversion: when a 4-byte length read
\* at pos has pos + 4 + L > size, the normalizer returns failure with no output
\* buffer, well-formed NAL units before it notwithstanding, and no packet is
\* submitted to the decoder.
MalformedLengthFails ==
    output # <<>>
        => \A whole \in Mp4Forms :
              LengthOverruns(input, whole)
                  => /\ ~output[1].ok
                     /\ output[1].out = <<>>
                     /\ Len(output) = 1

\* the normalizer has failed on a well-formed one-byte NAL unit followed by a
\* length of 256 with two bytes behind it
MalformedLengthWitness ==
    /\ input = <<0, 0, 0, 1, 7, 0, 0, 1, 0, 7, 7>>
    /\ output # <<>> /\ ~output[1].ok /\ output[1].out = <<>>

\* how often a buffer has been freed
TimesFreed(data) == Cardinality({ i \in 1..Len(output.freed) : output.freed[i] = data })

\* C25 - output buffer release balance: every RGBA buffer allocated in the
\* drain loop is freed exactly once on every path: never twice, never a buffer
\* that was not allocated, not while the loop still uses it, and never zero
\* times once decode_frame returns or the loop has moved to its next pass.
BufferReleaseBalance ==
    /\ \A i \in 1..Len(output.freed) : output.freed[i] \in output.allocated
    /\ \A data \in output.allocated :
          /\ TimesFreed(data) <= 1
          /\ data = output.rgba_data => TimesFreed(data) = 0
          /\ (output.pc = "return" \/ data < output.pass) /\ data # output.rgba_data
                => TimesFreed(data) = 1
    /\ \A i \in 1..Len(output.emitted) : TimesFreed(output.emitted[i]) = 1

\* decode_frame has returned after an emission to the sink and a frame dropped
\* because the source had become inactive
BufferReleaseWitness ==
    /\ output.pc = "return"
    /\ input = <<"emit", "emit">>
    /\ output.emitted = <<1>>
    /\ output.allocated = {1, 2}

\* a decoder comes into existence or goes out of it in this step
DecoderExistenceChanges ==
    \/ context'.nvdec_context.alloc # context.nvdec_context.alloc
    \/ context'.nvdec_context.codec_ctx # context.nvdec_context.codec_ctx
    \/ context'.audio_decoder_context # context.audio_decoder_context

\* the thread that takes this step holds the decoder gate
ActorHoldsGate ==
    /\ epc' # epc => decoder_mutex = "ev"
    /\ cpc' # cpc => decoder_mutex = "ctl"
    /\ decoder_mutex \in {"ev", "ctl"}

\* C26 - decoder existence changes only under the gate: every creation and
\* destruction of a decoder is a step of a thread that holds the decoder gate,
\* a frame callback holding the gate never sees a video decoder that is
\* allocated without an open codec, and a failed init leaves no decoder.
DecoderChangesUnderGate ==
    /\ [][DecoderExistenceChanges => ActorHoldsGate]_vars
    /\ [](\A t \in FrameThreads :
            decoder_mutex = t
                => (context.nvdec_context.alloc => context.nvdec_context.codec_ctx))
    /\ [][(epc \in {"c_vopen", "c_ainit"} /\ epc' = "idle")
            => (context'.nvdec_context = NoDecoder /\ ~context'.audio_decoder_context)]_vars

\* the active flag is clear and no activate is about to set it
ActiveCleared == ~context.active /\ cpc # "act_mark"

\* a callback step that creates a consumer, a track subscription or a decoder
CallbackCreates ==
    /\ cpc' = cpc
    /\ \/ \E id \in 1..MaxId :
             hkind[id] = "none" /\ hkind'[id] \in {"broadcast", "catalog", "video", "audio"}
       \/ ~context.nvdec_context.alloc /\ context'.nvdec_context.alloc
       \/ ~context.audio_decoder_context /\ context'.audio_decoder_context

\* C27 - no resource is created while inactive: a session-status or catalog
\* callback that runs or is still running after active has been cleared creates
\* no consumer, track subscription or decoder; when deactivate returns with no
\* callback in flight, no handle field holds an id and no decoder exists.
NoCreationWhileInactive ==
    /\ [][ActiveCleared => ~CallbackCreates]_vars
    /\ [][(DeactivateReturns /\ epc = "idle")
            => /\ \A i \in 1..Len(HandleFields) : context'[HandleFields[i]] <= 0
               /\ context'.nvdec_context = NoDecoder
               /\ ~context'.audio_decoder_context]_vars

\* hang_source_destroy has returned
Destroyed == cpc = "destroyed"

\* C28 - destroy releases everything: once hang_source_destroy has returned and
\* the callback it may have overlapped has finished, no handle the transport
\* issued is still open, no close was given an id that was not open, no decoder
\* exists, and destroy's decoder teardown ran with the gate held.
DestroyReleasesEverything ==
    /\ [](Destroyed /\ epc = "idle"
            => /\ \A id \in 1..MaxId : hkind[id] = "none"
               /\ ~hbad
               /\ context.nvdec_context = NoDecoder
               /\ ~context.audio_decoder_context)
    /\ [][(cpc = "destroy_decoders" /\ cpc' # cpc) => decoder_mutex = "ctl"]_vars

====
